---- MODULE Spec2Model ----
(***************************************************************************)
(* Model of the rigid-body simulation core of the engine: the fixed-step   *)
(* ODE integrators (EulerSolver, RK4Solver, createODESolver) and the       *)
(* impulse-based collision response (pt_velocity, colliding, collision,    *)
(* FindAllCollisions) and the derivative function Dxdt of the rigid-body   *)
(* state vector.                                                           *)
(*                                                                         *)
(* Arithmetic.  The program computes in IEEE doubles and floats.  In the   *)
(* model a real quantity is a rational <<n, d>> in lowest terms with       *)
(* d > 0.  Times decide how often the loop of ode runs, so the arithmetic  *)
(* on times is floating-point arithmetic: every sum and difference of      *)
(* times is rounded to the nearest value with Precision significant bits,  *)
(* ties to even, as IEEE 754 rounds a double to 53 bits.  Times are        *)
(* counted in ticks, and the tolerance eps of the loop is Eps ticks.       *)
(* States, velocities and momenta are computed exactly: their rounding     *)
(* changes values within the tolerances the tests allow and no decision.   *)
(***************************************************************************)
EXTENDS Integers, Sequences, FiniteSets, TLC

VARIABLES solver, res, hist, bodies, contacts, cres, impulses, deriv

vars == <<solver, res, hist, bodies, contacts, cres, impulses, deriv>>
odeVars == <<solver, res, hist>>
colVars == <<bodies, contacts, cres, impulses>>
derivVars == <<deriv>>

-----------------------------------------------------------------------------
(* Exact rational arithmetic standing for double / float arithmetic.  A    *)
(* value with denominator 0 is one of the special values of IEEE 754:      *)
(* <<1, 0>> is +infinity, <<-1, 0>> is -infinity and <<0, 0>> is NaN.      *)
(* They arise from a division by zero and spread as IEEE 754 spreads them. *)

(* With(e, F) is F(e) with e evaluated once (LET v == e IN F(v)).          *)
With(e, F(_)) == CHOOSE y \in {F(v) : v \in {e}} : TRUE

Abs(a) == IF a < 0 THEN -a ELSE a
Sign(a) == IF a < 0 THEN -1 ELSE IF a > 0 THEN 1 ELSE 0

RECURSIVE GCD(_, _)
GCD(a, b) == IF b = 0 THEN a ELSE GCD(b, a % b)

NaN == <<0, 0>>
Infinity == <<1, 0>>
IsNaN(a) == a = NaN
IsSpecial(a) == a[2] = 0

(* n / d in lowest terms, the sign in the numerator; n / 0 is an infinity  *)
(* of the sign of n, and 0 / 0 is NaN.                                     *)
R(n, d) ==
    IF d = 0 THEN <<Sign(n), 0>>
    ELSE LET g == GCD(Abs(n), Abs(d))
         IN  IF d < 0 THEN <<(-n) \div g, (-d) \div g>> ELSE <<n \div g, d \div g>>

I(n) == <<n, 1>>
Zero == I(0)
RAdd(a, b) ==
    IF a[2] = 0 \/ b[2] = 0
    THEN IF IsNaN(a) \/ IsNaN(b) THEN NaN
         ELSE IF a[2] = 0 /\ b[2] = 0 THEN (IF a = b THEN a ELSE NaN)
         ELSE IF a[2] = 0 THEN a ELSE b
    ELSE LET g == GCD(a[2], b[2])
         IN  R(a[1] * (b[2] \div g) + b[1] * (a[2] \div g), (a[2] \div g) * b[2])
RNeg(a) == <<-a[1], a[2]>>
RSub(a, b) == RAdd(a, RNeg(b))
RMul(a, b) ==
    IF a[2] = 0 \/ b[2] = 0
    THEN <<Sign(a[1]) * Sign(b[1]), 0>>
    ELSE LET g1 == GCD(Abs(a[1]), b[2])
             g2 == GCD(Abs(b[1]), a[2])
         IN  R((a[1] \div g1) * (b[1] \div g2), (a[2] \div g2) * (b[2] \div g1))
RInv(a) == IF IsSpecial(a) THEN (IF IsNaN(a) THEN NaN ELSE Zero) ELSE R(a[2], a[1])
RDiv(a, b) == RMul(a, RInv(b))
(* a < b and a <= b as the comparison operators of C++ decide them: false  *)
(* whenever an operand is NaN.                                             *)
RLess(a, b) ==
    IF a[2] = 0 \/ b[2] = 0
    THEN IF IsNaN(a) \/ IsNaN(b) THEN FALSE
         ELSE IF a[2] = 0 /\ b[2] = 0 THEN a[1] < b[1]
         ELSE IF a[2] = 0 THEN a[1] < 0 ELSE b[1] > 0
    ELSE a[1] * b[2] < b[1] * a[2]
RLeq(a, b) ==
    IF a[2] = 0 \/ b[2] = 0
    THEN IF IsNaN(a) \/ IsNaN(b) THEN FALSE
         ELSE IF a[2] = 0 /\ b[2] = 0 THEN a[1] <= b[1]
         ELSE IF a[2] = 0 THEN a[1] < 0 ELSE b[1] > 0
    ELSE a[1] * b[2] <= b[1] * a[2]

-----------------------------------------------------------------------------
(* Bounds of the model.                                                    *)

MaxStep == 6        \* step sizes offered to the solvers: -1 .. MaxStep ticks
MaxT0 == 1          \* small start times offered to ode: 0 .. MaxT0
MaxSpan == 8        \* end times offered to ode: t0 - 1 .. t0 + MaxSpan
Precision == 5      \* significant bits of a time (53 in a double)

(* The tolerance of the loop condition, "const double eps = 1e-14", in     *)
(* ticks.  Three ticks, so that a step may exceed the interval by less     *)
(* than eps, by exactly eps, and by more, and two steps may fit into eps.  *)
(* Like 1e-14 against the doubles, Eps is several units in the last place  *)
(* of a small time and less than one of a large time.                      *)
Eps == 3

(* The default step size of the constructors and the factory, 0.01, in     *)
(* ticks.  Only its sign and its order against Eps matter to the model.    *)
DefaultStepSize == 3

(* The distance between neighbouring floating-point values at the          *)
(* magnitude a > 0: one tick for 2^(Precision-1) <= a < 2^Precision,       *)
(* doubling with every doubling of a.                                      *)
RECURSIVE Ulp(_)
Ulp(a) ==
    IF RLeq(I(2 ^ Precision), a) THEN RMul(I(2), Ulp(RDiv(a, I(2))))
    ELSE IF RLess(a, I(2 ^ (Precision - 1))) THEN RDiv(Ulp(RMul(I(2), a)), I(2))
    ELSE I(1)

(* The integer nearest to the rational q, the even one of two equally near *)
RoundInt(q) ==
    LET fl == q[1] \div q[2]
        twice == 2 * (q[1] % q[2])
    IN  IF twice < q[2] THEN fl
        ELSE IF twice > q[2] THEN fl + 1
        ELSE IF fl % 2 = 0 THEN fl ELSE fl + 1

(* The result of a double operation whose exact result is a: a rounded to  *)
(* the nearest floating-point value.                                       *)
RoundDouble(a) ==
    IF a[1] = 0 THEN Zero
    ELSE With(Ulp(<<Abs(a[1]), a[2]>>), LAMBDA u : RMul(I(RoundInt(RDiv(a, u))), u))

(* a + b and a - b on doubles holding whole numbers of ticks.              *)
TimeAdd(a, b) == RoundDouble(I(a + b))[1]
TimeSub(a, b) == RoundDouble(I(a - b))[1]

(* A double argument can only be a floating-point value.                   *)
Representable(n) == RoundDouble(I(n)) = I(n)

(* Start times offered to ode: small ones, where every tick is a           *)
(* floating-point value, and one near the end of each of the next two      *)
(* binades, where they are 2 and 4 ticks apart.                            *)
StartTimes == (0 .. MaxT0) \cup {2 ^ Precision - 3, 2 ^ (Precision + 1) - 4}
EndTimes(t0) == {t1 \in (t0 - 1) .. (t0 + MaxSpan) : Representable(t1)}

StepSizes == (-1) .. MaxStep
Tags == {"euler", "rk4", "", "Euler", "EULER", "RK4", "unknown"}

(* Initial state vectors offered to ode, the empty one included.           *)
InitialStates == {<<>>, <<I(1)>>, <<I(1), I(-2)>>}

(* The caller's xEnd before the call: tests pass a fresh empty vector; a   *)
(* reused one holds stale data of another size.                            *)
XEndBefore == {<<>>, <<I(7), I(7), I(7)>>}

-----------------------------------------------------------------------------
(* Derivative functions (DerivFunc): callbacks f(t, x, xdot) that write    *)
(* into the buffer xdot the solver hands them.                             *)
(*   constant : xdot[0] = c        (constantDerivative, c = 5)             *)
(*   decay    : xdot[i] = -2*x[i]  (linearSystem's second component)       *)
(*   ramp     : xdot[i] = t        (depends on time only)                  *)
(* and the smooth systems of the accuracy tests, whose unit of time is     *)
(* UnitTicks ticks:                                                        *)
(*   relax    : xdot[0] = -x[0]    (linearSystem's first component)        *)
(*   growth   : xdot[0] = x[0]     (exponentialGrowth, k = 1)              *)

DerivFuncs == {"constant", "decay", "ramp"}
SmoothFuncs == {"relax", "growth"}

ConstantC == 5
DecayRate == 2

(* The end time 1.0 of the accuracy tests, in ticks.                       *)
UnitTicks == 8

CallDeriv(f, t, x, xdot) ==
    CASE f = "constant" ->
           [i \in 1 .. Len(xdot) |-> IF i = 1 THEN I(ConstantC) ELSE xdot[i]]
      [] f = "decay" -> [i \in 1 .. Len(xdot) |-> RMul(I(-DecayRate), x[i])]
      [] f = "ramp" -> [i \in 1 .. Len(xdot) |-> t]
      [] f = "relax" ->
           [i \in 1 .. Len(xdot) |->
               IF i = 1 THEN RMul(R(-1, UnitTicks), x[1]) ELSE xdot[i]]
      [] f = "growth" ->
           [i \in 1 .. Len(xdot) |->
               IF i = 1 THEN RMul(R(1, UnitTicks), x[1]) ELSE xdot[i]]

Zeros(dim) == [i \in 1 .. dim |-> Zero]

-----------------------------------------------------------------------------
(* The solvers.                                                            *)

NoSolver == [kind |-> "none", h |-> 0]

(* if (stepSize <= 0.0) throw std::invalid_argument                        *)
BadStepSizeStrict(stepSize) == stepSize < 0
BadStepSize(stepSize) == stepSize <= 0

(* if (t1 <= t0) throw std::invalid_argument                               *)
BadTimeRangeStrict(t0, t1) == t1 < t0
BadTimeRange(t0, t1) == t1 <= t0

(* while (t_current + m_stepSize <= t1 + eps)                              *)
StepFitsOvershoot(t, h, t1) == t < t1
StepFits(t, h, t1) == TimeAdd(t, h) <= TimeAdd(t1, Eps)

(* x + a * k, component by component.                                      *)
Axpy(x, a, k) == [i \in 1 .. Len(x) |-> RAdd(x[i], RMul(a, k[i]))]

(* One pass of the body of EulerSolver::ode's loop:                        *)
(*   dxdt(t, x, xdot); x[i] += h * xdot[i]                                 *)
EulerStep(h, f, t, x, xdot) ==
    With(CallDeriv(f, I(t), x, xdot), LAMBDA d :
        [x |-> Axpy(x, I(h), d), xdot |-> d, calls |-> << <<I(t), x>> >>])

(* The combination with the four slopes weighted alike.                    *)
RK4CombineEqualWeights(h, x, k1, k2, k3, k4) ==
    [i \in 1 .. Len(x) |->
        RAdd(x[i],
             RMul(R(h, 4), RAdd(RAdd(RAdd(k1[i], k2[i]), k3[i]), k4[i])))]

(* x += (h/6) * (k1 + 2*k2 + 2*k3 + k4)                                    *)
RK4Combine(h, x, k1, k2, k3, k4) ==
    [i \in 1 .. Len(x) |->
        RAdd(x[i],
             RMul(R(h, 6),
                  RAdd(RAdd(RAdd(k1[i], RMul(I(2), k2[i])), RMul(I(2), k3[i])),
                       k4[i])))]

(* The pass with each stage input built on the one before it.             *)
RK4StepChained(h, f, t, x, k) ==
    LET half == R(h, 2)
        tm == RoundDouble(RAdd(I(t), half))
        te == I(TimeAdd(t, h))
    IN  With(CallDeriv(f, I(t), x, k[1]), LAMBDA k1 :
        With(Axpy(x, half, k1), LAMBDA x2 :
        With(CallDeriv(f, tm, x2, k[2]), LAMBDA k2 :
        With(Axpy(x2, half, k2), LAMBDA x3 :
        With(CallDeriv(f, tm, x3, k[3]), LAMBDA k3 :
        With(Axpy(x3, I(h), k3), LAMBDA x4 :
        With(CallDeriv(f, te, x4, k[4]), LAMBDA k4 :
            [x |-> RK4Combine(h, x, k1, k2, k3, k4),
             xdot |-> <<k1, k2, k3, k4>>,
             calls |-> << <<I(t), x>>, <<tm, x2>>, <<tm, x3>>, <<te, x4>> >>])))))))

(* One pass of the body of RK4Solver::ode's loop.  k1 .. k4 are buffers    *)
(* that live across the passes (k[1] .. k[4]).                             *)
RK4Step(h, f, t, x, k) ==
    LET half == R(h, 2)
        tm == RoundDouble(RAdd(I(t), half))
        te == I(TimeAdd(t, h))
    IN  With(CallDeriv(f, I(t), x, k[1]), LAMBDA k1 :
        With(Axpy(x, half, k1), LAMBDA x2 :
        With(CallDeriv(f, tm, x2, k[2]), LAMBDA k2 :
        With(Axpy(x, half, k2), LAMBDA x3 :
        With(CallDeriv(f, tm, x3, k[3]), LAMBDA k3 :
        With(Axpy(x, I(h), k3), LAMBDA x4 :
        With(CallDeriv(f, te, x4, k[4]), LAMBDA k4 :
            [x |-> RK4Combine(h, x, k1, k2, k3, k4),
             xdot |-> <<k1, k2, k3, k4>>,
             calls |-> << <<I(t), x>>, <<tm, x2>>, <<tm, x3>>, <<te, x4>> >>])))))))

SolverStep(kind, h, f, t, x, buf) ==
    IF kind = "euler" THEN EulerStep(h, f, t, x, buf) ELSE RK4Step(h, f, t, x, buf)

(* The loop of ode: t_current, x_current, the number of passes made and    *)
(* the arguments of the derivative calls made, in order.  When             *)
(* t_current += m_stepSize rounds back to t_current the condition stays    *)
(* true for ever: the loop hangs, and steps and calls are those made until *)
(* t_current stopped moving.                                               *)
RECURSIVE OdeLoop(_, _, _, _, _, _, _, _, _)
OdeLoop(kind, h, f, t1, t, x, buf, n, calls) ==
    IF StepFits(t, h, t1)
    THEN IF TimeAdd(t, h) = t
         THEN [x |-> x, t |-> t, steps |-> n, calls |-> calls, hang |-> TRUE]
         ELSE With(SolverStep(kind, h, f, t, x, buf), LAMBDA s :
                OdeLoop(kind, h, f, t1, TimeAdd(t, h), s.x, s.xdot, n + 1,
                        calls \o s.calls))
    ELSE [x |-> x, t |-> t, steps |-> n, calls |-> calls, hang |-> FALSE]

(* ode as it would be if it shortened a last step to land on t1.           *)
OdePartialStep(kind, h, x0, xEnd, t0, t1, f) ==
    IF Len(x0) = 0 \/ BadTimeRange(t0, t1)
    THEN [threw |-> "invalid_argument", hang |-> FALSE, xEnd |-> xEnd, ret |-> 0,
          steps |-> 0, calls |-> <<>>]
    ELSE LET buf == IF kind = "euler" THEN Zeros(Len(x0))
                    ELSE <<Zeros(Len(x0)), Zeros(Len(x0)), Zeros(Len(x0)),
                           Zeros(Len(x0))>>
         IN  With(OdeLoop(kind, h, f, t1, t0, x0, buf, 0, <<>>), LAMBDA r :
                IF r.hang
                THEN [threw |-> "none", hang |-> TRUE, xEnd |-> xEnd, ret |-> 0,
                      steps |-> r.steps, calls |-> r.calls]
                ELSE IF r.t < t1
                THEN With(SolverStep(kind, TimeSub(t1, r.t), f, r.t, r.x, buf),
                          LAMBDA s :
                        [threw |-> "none", hang |-> FALSE, xEnd |-> s.x, ret |-> 0,
                         steps |-> r.steps + 1, calls |-> r.calls \o s.calls])
                ELSE [threw |-> "none", hang |-> FALSE, xEnd |-> r.x,
                      ret |-> TimeSub(t1, r.t),
                      steps |-> r.steps, calls |-> r.calls])

(* EulerSolver::ode and RK4Solver::ode.  The result carries what the call  *)
(* threw, whether it hangs in its loop, the caller's xEnd afterwards and   *)
(* the value returned.  A call that hangs never reaches "xEnd = x_current" *)
(* and returns nothing.                                                    *)
Ode(kind, h, x0, xEnd, t0, t1, f) ==
    IF Len(x0) = 0
    THEN [threw |-> "invalid_argument", hang |-> FALSE, xEnd |-> xEnd, ret |-> 0,
          steps |-> 0, calls |-> <<>>]
    ELSE IF BadTimeRange(t0, t1)
    THEN [threw |-> "invalid_argument", hang |-> FALSE, xEnd |-> xEnd, ret |-> 0,
          steps |-> 0, calls |-> <<>>]
    ELSE LET dim == Len(x0)
             buf == IF kind = "euler" THEN Zeros(dim)
                    ELSE <<Zeros(dim), Zeros(dim), Zeros(dim), Zeros(dim)>>
         IN  With(OdeLoop(kind, h, f, t1, t0, x0, buf, 0, <<>>), LAMBDA r :
                IF r.hang
                THEN [threw |-> "none", hang |-> TRUE, xEnd |-> xEnd, ret |-> 0,
                      steps |-> r.steps, calls |-> r.calls]
                ELSE [threw |-> "none", hang |-> FALSE, xEnd |-> r.x,
                      ret |-> TimeSub(t1, r.t),
                      steps |-> r.steps, calls |-> r.calls])

(* EulerSolver(stepSize) / RK4Solver(stepSize): the solver made, or the   *)
(* kind "none" when the constructor throws std::invalid_argument.          *)
NewSolver(kind, stepSize) ==
    IF BadStepSize(stepSize) THEN NoSolver ELSE [kind |-> kind, h |-> stepSize]

(* setStepSize as it would be if it stored the value before testing it.    *)
setStepSizeStoreFirst(s, stepSize) == [s EXCEPT !.h = stepSize]

(* setStepSize(stepSize) on the solver s: the solver afterwards (the same  *)
(* when the call throws).                                                  *)
setStepSize(s, stepSize) ==
    IF BadStepSize(stepSize) THEN s ELSE [s EXCEPT !.h = stepSize]

(* getStepSize()                                                           *)
getStepSize(s) == s.h

(* createODESolver(solverType, stepSize): the solver made, or the kind     *)
(* "none" when the call throws std::invalid_argument (an unknown type, or  *)
(* the constructor's exception passing through).                           *)
Lower(tag) ==
    CASE tag \in {"Euler", "EULER"} -> "euler"
      [] tag = "RK4" -> "rk4"
      [] OTHER -> tag

createAnyCase(solverType, stepSize) ==
    IF Lower(solverType) = "euler" THEN NewSolver("euler", stepSize)
    ELSE IF Lower(solverType) = "rk4" THEN NewSolver("rk4", stepSize)
    ELSE NoSolver

createEulerForRK4(solverType, stepSize) ==
    IF solverType = "euler" THEN NewSolver("euler", stepSize)
    ELSE IF solverType = "rk4" THEN NewSolver("euler", stepSize)
    ELSE NoSolver

createEulerOnly(solverType, stepSize) ==
    IF solverType = "euler" THEN NewSolver("euler", stepSize) ELSE NoSolver

createODESolver(solverType, stepSize) ==
    IF solverType = "euler" THEN NewSolver("euler", stepSize)
    ELSE IF solverType = "rk4" THEN NewSolver("rk4", stepSize)
    ELSE NoSolver

-----------------------------------------------------------------------------
(* The calls a client makes on the integrator interface.  res records the  *)
(* last call: its arguments, what it threw and what it returned; before is *)
(* the client's solver when the call was made.                             *)

(* hist is what a client knows of its solver object from the calls it has  *)
(* made on it: the step size it was constructed with or last set           *)
(* successfully, and whether a setStepSize on it has succeeded, a          *)
(* setStepSize on it has thrown and ode has been called on it.             *)
NoHist == [step |-> 0, sets |-> FALSE, rejected |-> FALSE, odes |-> FALSE]
Made(stepSize) == [NoHist EXCEPT !.step = stepSize]

NoRes == [op |-> "none", threw |-> "none", hang |-> FALSE, tag |-> "", kind |-> "none",
          h |-> 0, dflt |-> FALSE, x0 |-> <<>>, xEndIn |-> <<>>, t0 |-> 0, t1 |-> 0,
          f |-> "constant", xEnd |-> <<>>, ret |-> 0, steps |-> 0,
          calls |-> <<>>, before |-> NoSolver]

(* dflt: the argument is omitted and the declaration's default is used.    *)
(* A constructor that throws makes no object: the client keeps what it had *)
Construct(kind, stepSize, dflt) ==
    \E made \in {NewSolver(kind, IF dflt THEN DefaultStepSize ELSE stepSize)} :
        /\ solver' = IF made.kind = "none" THEN solver ELSE made
        /\ res' = [NoRes EXCEPT !.op = "construct", !.kind = kind,
                     !.h = IF dflt THEN DefaultStepSize ELSE stepSize,
                     !.dflt = dflt, !.before = solver,
                     !.ret = getStepSize(made),
                     !.threw = IF made.kind = "none" THEN "invalid_argument"
                               ELSE "none"]
        /\ hist' = IF res'.threw = "none" THEN Made(res'.h) ELSE hist
        /\ UNCHANGED <<colVars, derivVars>>

ConstructEuler == \E hh \in StepSizes, d \in BOOLEAN : Construct("euler", hh, d)
ConstructRK4 == \E hh \in StepSizes, d \in BOOLEAN : Construct("rk4", hh, d)

Create ==
    \E tag \in Tags, stepSize \in StepSizes, dflt \in BOOLEAN :
    \E made \in {createODESolver(tag, IF dflt THEN DefaultStepSize ELSE stepSize)} :
        /\ solver' = IF made.kind = "none" THEN solver ELSE made
        /\ res' = [NoRes EXCEPT !.op = "create", !.tag = tag,
                     !.h = IF dflt THEN DefaultStepSize ELSE stepSize,
                     !.dflt = dflt, !.kind = made.kind, !.before = solver,
                     !.ret = getStepSize(made),
                     !.threw = IF made.kind = "none" THEN "invalid_argument"
                               ELSE "none"]
        /\ hist' = IF res'.threw = "none" THEN Made(res'.h) ELSE hist
        /\ UNCHANGED <<colVars, derivVars>>

SetStepSize ==
    /\ solver.kind # "none"
    /\ \E stepSize \in StepSizes :
        /\ solver' = setStepSize(solver, stepSize)
        /\ res' = [NoRes EXCEPT !.op = "setStepSize", !.kind = solver.kind,
                     !.h = stepSize, !.before = solver,
                     !.threw = IF BadStepSize(stepSize) THEN "invalid_argument"
                               ELSE "none"]
        /\ hist' = IF res'.threw = "none"
                   THEN [hist EXCEPT !.step = stepSize, !.sets = TRUE]
                   ELSE [hist EXCEPT !.rejected = TRUE]
    /\ UNCHANGED <<colVars, derivVars>>

GetStepSize ==
    /\ solver.kind # "none"
    /\ res' = [NoRes EXCEPT !.op = "getStepSize", !.kind = solver.kind,
                 !.h = solver.h, !.ret = getStepSize(solver), !.before = solver]
    /\ UNCHANGED <<solver, hist, colVars, derivVars>>

(* solver.ode(x0, xEnd, t0, t1, f).  ode reads the solver and never writes *)
(* it, so one call from each solver shows all ode can do.                  *)
CallOde ==
    /\ solver.kind # "none"
    /\ res.op = "none"
    /\ \E x0 \in InitialStates, xe \in XEndBefore, t0 \in StartTimes,
          f \in DerivFuncs :
       \E t1 \in EndTimes(t0) :
       \E r \in {Ode(solver.kind, solver.h, x0, xe, t0, t1, f)} :
          res' = [NoRes EXCEPT !.op = "ode", !.kind = solver.kind,
                    !.h = solver.h, !.x0 = x0, !.xEndIn = xe, !.t0 = t0,
                    !.t1 = t1, !.f = f, !.threw = r.threw, !.hang = r.hang,
                    !.xEnd = r.xEnd,
                    !.ret = r.ret, !.steps = r.steps, !.calls = r.calls,
                    !.before = solver]
    /\ hist' = [hist EXCEPT !.odes = TRUE]
    /\ UNCHANGED <<solver, colVars, derivVars>>

-----------------------------------------------------------------------------
(* Placeholder state of the collision half while the integrators run.      *)

NoCollisionState ==
    /\ bodies = <<>>
    /\ contacts = <<>>
    /\ cres = <<>>
    /\ impulses = 0
    /\ deriv = <<>>

(* The life of a solver object: made by a constructor or the factory, its  *)
(* step size set and read.                                                 *)
InitSolver ==
    /\ solver = NoSolver
    /\ res = NoRes
    /\ hist = NoHist
    /\ NoCollisionState

NextSolver ==
    \/ ConstructEuler
    \/ ConstructRK4
    \/ Create
    \/ SetStepSize
    \/ GetStepSize

SpecSolver == InitSolver /\ [][NextSolver]_vars

(* ode on a constructed solver: the constructors and setStepSize admit     *)
(* every kind with every step size > 0 and nothing else.                   *)
InitOde ==
    /\ solver \in {[kind |-> k, h |-> hh] : k \in {"euler", "rk4"}, hh \in 1 .. MaxStep}
    /\ res = NoRes
    /\ hist = Made(solver.h)
    /\ NoCollisionState

NextOde == CallOde

SpecOde == InitOde /\ [][NextOde]_vars

(* A client's session with one solver: setStepSize, getStepSize and ode in *)
(* any order, ode as often as the client likes, with arguments it accepts  *)
(* and arguments it rejects.                                               *)
CallOdeAgain ==
    /\ solver.kind # "none"
    /\ \E x0 \in {<<>>, <<I(1)>>}, t0 \in 0 .. MaxT0 :
       \E t1 \in {t0, t0 + MaxSpan} :
       \E r \in {Ode(solver.kind, solver.h, x0, <<>>, t0, t1, "constant")} :
          res' = [NoRes EXCEPT !.op = "ode", !.kind = solver.kind,
                    !.h = solver.h, !.x0 = x0, !.t0 = t0,
                    !.t1 = t1, !.f = "constant", !.threw = r.threw,
                    !.hang = r.hang, !.xEnd = r.xEnd,
                    !.ret = r.ret, !.steps = r.steps, !.calls = r.calls,
                    !.before = solver]
    /\ hist' = [hist EXCEPT !.odes = TRUE]
    /\ UNCHANGED <<solver, colVars, derivVars>>

InitSession ==
    /\ solver \in {[kind |-> k, h |-> hh] : k \in {"euler", "rk4"}, hh \in 1 .. MaxStep}
    /\ res = NoRes
    /\ hist = Made(solver.h)
    /\ NoCollisionState

NextSession ==
    \/ SetStepSize
    \/ GetStepSize
    \/ CallOdeAgain

SpecSession == InitSession /\ [][NextSession]_vars

(* ode on the smooth systems over [0, 1], as the accuracy tests call it.   *)
(* A tick is an eighth of the unit here and the tolerance of the loop is   *)
(* far below a tick: the step sizes offered are those larger than Eps for  *)
(* which no whole number of steps ends within Eps ticks beyond t1, so that *)
(* the loop condition decides as it does with the real tolerance.  They    *)
(* reach from half the interval to beyond it.                              *)
AccuracySteps ==
    {hh \in (Eps + 1) .. (UnitTicks + Eps + 1) :
        \A n \in 1 .. UnitTicks : ~(UnitTicks < n * hh /\ n * hh <= UnitTicks + Eps)}

SmoothStates == {<<I(1)>>, <<I(2)>>, <<I(1), I(2)>>, <<I(1), I(-2)>>}

CallOdeSmooth ==
    /\ solver.kind # "none"
    /\ res.op = "none"
    /\ \E x0 \in SmoothStates, xe \in XEndBefore, f \in SmoothFuncs :
       \E r \in {Ode(solver.kind, solver.h, x0, xe, 0, UnitTicks, f)} :
          res' = [NoRes EXCEPT !.op = "ode", !.kind = solver.kind,
                    !.h = solver.h, !.x0 = x0, !.xEndIn = xe, !.t0 = 0,
                    !.t1 = UnitTicks, !.f = f, !.threw = r.threw, !.hang = r.hang,
                    !.xEnd = r.xEnd,
                    !.ret = r.ret, !.steps = r.steps, !.calls = r.calls,
                    !.before = solver]
    /\ hist' = [hist EXCEPT !.odes = TRUE]
    /\ UNCHANGED <<solver, colVars, derivVars>>

InitAccuracy ==
    /\ solver \in {[kind |-> k, h |-> hh] : k \in {"euler", "rk4"}, hh \in AccuracySteps}
    /\ res = NoRes
    /\ hist = Made(solver.h)
    /\ NoCollisionState

NextAccuracy == CallOdeSmooth

SpecAccuracy == InitAccuracy /\ [][NextAccuracy]_vars

-----------------------------------------------------------------------------
(* Collision response.  A triple is <<x, y, z>> of rationals; a 3x3 matrix *)
(* is the sequence of its rows.                                            *)

V(a, b, c) == <<I(a), I(b), I(c)>>
VZero == V(0, 0, 0)
VAdd(a, b) == [i \in 1 .. 3 |-> RAdd(a[i], b[i])]
VSub(a, b) == [i \in 1 .. 3 |-> RSub(a[i], b[i])]
VScale(r, a) == [i \in 1 .. 3 |-> RMul(r, a[i])]
Dot(a, b) == RAdd(RAdd(RMul(a[1], b[1]), RMul(a[2], b[2])), RMul(a[3], b[3]))
Cross(a, b) ==
    <<RSub(RMul(a[2], b[3]), RMul(a[3], b[2])),
      RSub(RMul(a[3], b[1]), RMul(a[1], b[3])),
      RSub(RMul(a[1], b[2]), RMul(a[2], b[1]))>>
MatVec(m, a) == [i \in 1 .. 3 |-> Dot(m[i], a)]
Diag(a, b, c) == <<<<a, Zero, Zero>>, <<Zero, b, Zero>>, <<Zero, Zero, c>>>>

(* const double THRESHOLD = 1e-6, in the model's unit of velocity.  Only   *)
(* its sign and its order against the velocities offered matter.           *)
THRESHOLD == R(1, 4)

(* triple pt_velocity(RigidBody *body, triple p)                           *)
pt_velocity(body, p) ==
    With(VSub(p, body.x), LAMBDA r : VAdd(body.v, Cross(body.omega, r)))

(* vrel = n . (padot - pbdot), as colliding and collision compute it.      *)
RelativeVelocity(bs, c) ==
    With(pt_velocity(bs[c.a], c.p), LAMBDA padot :
    With(pt_velocity(bs[c.b], c.p), LAMBDA pbdot :
    With(VSub(padot, pbdot), LAMBDA d : Dot(c.n, d))))

(* The two tests of colliding on vrel.                                     *)
IsApproachingNoBand(vrel) == RLess(vrel, Zero)
IsApproaching(vrel) ==
    IF RLess(THRESHOLD, vrel) THEN FALSE
    ELSE IF RLess(RNeg(THRESHOLD), vrel) THEN FALSE
    ELSE TRUE

(* bool colliding(Contact *c)                                              *)
colliding(bs, c) == With(RelativeVelocity(bs, c), LAMBDA vrel : IsApproaching(vrel))

(* n . ((Iinv (r x n)) x r): term3 and term4 of the denominator.           *)
InertiaTerm(Iinv, r, n) ==
    With(Cross(r, n), LAMBDA t1 :
    With(MatVec(Iinv, t1), LAMBDA t2 :
    With(Cross(t2, r), LAMBDA t3 : Dot(n, t3))))

(* The impulse magnitude j of collision.                                   *)
ImpulseMagnitudeInelastic(bs, c, epsilon) ==
    With(RelativeVelocity(bs, c), LAMBDA vrel :
    With(RNeg(vrel), LAMBDA numerator :
    With(RDiv(I(1), I(bs[c.a].mass)), LAMBDA term1 :
    With(RDiv(I(1), I(bs[c.b].mass)), LAMBDA term2 :
    With(InertiaTerm(bs[c.a].Iinv, VSub(c.p, bs[c.a].x), c.n), LAMBDA term3 :
    With(InertiaTerm(bs[c.b].Iinv, VSub(c.p, bs[c.b].x), c.n), LAMBDA term4 :
        RDiv(numerator, RAdd(RAdd(RAdd(term1, term2), term3), term4))))))))
(* The impulse magnitude with the rotational terms left out.               *)
ImpulseMagnitudeNoInertia(bs, c, epsilon) ==
    With(RelativeVelocity(bs, c), LAMBDA vrel :
    With(RMul(RNeg(RAdd(I(1), epsilon)), vrel), LAMBDA numerator :
    With(RDiv(I(1), I(bs[c.a].mass)), LAMBDA term1 :
    With(RDiv(I(1), I(bs[c.b].mass)), LAMBDA term2 :
        RDiv(numerator, RAdd(term1, term2))))))
ImpulseMagnitude(bs, c, epsilon) ==
    With(RelativeVelocity(bs, c), LAMBDA vrel :
    With(RMul(RNeg(RAdd(I(1), epsilon)), vrel), LAMBDA numerator :
    With(RDiv(I(1), I(bs[c.a].mass)), LAMBDA term1 :
    With(RDiv(I(1), I(bs[c.b].mass)), LAMBDA term2 :
    With(InertiaTerm(bs[c.a].Iinv, VSub(c.p, bs[c.a].x), c.n), LAMBDA term3 :
    With(InertiaTerm(bs[c.b].Iinv, VSub(c.p, bs[c.b].x), c.n), LAMBDA term4 :
        RDiv(numerator, RAdd(RAdd(RAdd(term1, term2), term3), term4))))))))

(* The four impulse assignments of collision, in the order of the code     *)
(* (each reads the bodies as the one before left them).                    *)
ApplyImpulseSameSign(bs, c, force, ra, rb) ==
    With([bs EXCEPT ![c.a].P = VAdd(@, force)], LAMBDA b1 :
    With([b1 EXCEPT ![c.b].P = VAdd(@, force)], LAMBDA b2 :
    With([b2 EXCEPT ![c.a].L = VAdd(@, Cross(ra, force))], LAMBDA b3 :
         [b3 EXCEPT ![c.b].L = VSub(@, Cross(rb, force))])))
ApplyImpulseTorqueSameSign(bs, c, force, ra, rb) ==
    With([bs EXCEPT ![c.a].P = VAdd(@, force)], LAMBDA b1 :
    With([b1 EXCEPT ![c.b].P = VSub(@, force)], LAMBDA b2 :
    With([b2 EXCEPT ![c.a].L = VAdd(@, Cross(ra, force))], LAMBDA b3 :
         [b3 EXCEPT ![c.b].L = VAdd(@, Cross(rb, force))])))
ApplyImpulse(bs, c, force, ra, rb) ==
    With([bs EXCEPT ![c.a].P = VAdd(@, force)], LAMBDA b1 :
    With([b1 EXCEPT ![c.b].P = VSub(@, force)], LAMBDA b2 :
    With([b2 EXCEPT ![c.a].L = VAdd(@, Cross(ra, force))], LAMBDA b3 :
         [b3 EXCEPT ![c.b].L = VSub(@, Cross(rb, force))])))

(* "recompute auxiliary variables": v = P / mass, omega = Iinv * L.        *)
Recompute(bs, c) ==
    With([bs EXCEPT ![c.a].v = VScale(RDiv(I(1), I(bs[c.a].mass)), bs[c.a].P)],
         LAMBDA b1 :
    With([b1 EXCEPT ![c.b].v = VScale(RDiv(I(1), I(b1[c.b].mass)), b1[c.b].P)],
         LAMBDA b2 :
    With([b2 EXCEPT ![c.a].omega = MatVec(b2[c.a].Iinv, b2[c.a].L)], LAMBDA b3 :
         [b3 EXCEPT ![c.b].omega = MatVec(b3[c.b].Iinv, b3[c.b].L)])))

(* void collision(Contact *c, double epsilon): the bodies afterwards.      *)
collision(bs, c, epsilon) ==
    With(ImpulseMagnitude(bs, c, epsilon), LAMBDA j :
    With(VScale(j, c.n), LAMBDA force :
    With(ApplyImpulse(bs, c, force, VSub(c.p, bs[c.a].x), VSub(c.p, bs[c.b].x)),
         LAMBDA b4 : Recompute(b4, c))))

(* "double epsilon = 0.5", the restitution FindAllCollisions resolves with. *)
FindEpsilon == R(1, 2)

(* What FindAllCollisions does, in order, as a sequence of events:         *)
(*   "pass"      the body of the do-while loop is entered                  *)
(*   "colliding" colliding(&contacts[i]) is called and returns ret         *)
(*   "collision" collision(&contacts[i], epsilon) is called and leaves     *)
(*               the bodies as recorded                                    *)
(*   "signal"    ode_discontinuous() is called                             *)
(* i counts the contacts from 1: contacts[0] of the code is contact 1.     *)
Ev(ev, i, ret, bs) == [ev |-> ev, i |-> i, ret |-> ret, bodies |-> bs]
Count(trace, ev) == Cardinality({k \in 1 .. Len(trace) : trace[k].ev = ev})

(* The for loop of FindAllCollisions from contact i on: the bodies, the    *)
(* flag had_collision and the events so far.  contacts[i] is read without  *)
(* a test of i against contacts.size(): reading beyond the list (oob) is   *)
(* undefined, and the loop is followed no further.                         *)
RECURSIVE FindPassDetectOnly(_, _, _, _, _, _)
FindPassDetectOnly(bs, cs, ncontacts, i, had, trace) ==
    IF i > ncontacts THEN [bodies |-> bs, had |-> had, trace |-> trace, oob |-> FALSE]
    ELSE IF i > Len(cs)
    THEN [bodies |-> bs, had |-> had, oob |-> TRUE,
          trace |-> Append(trace, Ev("colliding", i, FALSE, <<>>))]
    ELSE IF colliding(bs, cs[i])
    THEN FindPassDetectOnly(bs, cs, ncontacts, i + 1, TRUE,
            trace \o <<Ev("colliding", i, TRUE, <<>>), Ev("signal", i, TRUE, <<>>)>>)
    ELSE FindPassDetectOnly(bs, cs, ncontacts, i + 1, had,
            Append(trace, Ev("colliding", i, FALSE, <<>>)))

RECURSIVE FindPassNoTest(_, _, _, _, _, _)
FindPassNoTest(bs, cs, ncontacts, i, had, trace) ==
    IF i > ncontacts THEN [bodies |-> bs, had |-> had, trace |-> trace, oob |-> FALSE]
    ELSE IF i > Len(cs)
    THEN [bodies |-> bs, had |-> had, oob |-> TRUE,
          trace |-> Append(trace, Ev("colliding", i, FALSE, <<>>))]
    ELSE With(collision(bs, cs[i], FindEpsilon), LAMBDA nb :
            FindPassNoTest(nb, cs, ncontacts, i + 1, TRUE,
                trace \o <<Ev("collision", i, TRUE, nb), Ev("signal", i, TRUE, <<>>)>>))

(* The loop signalling before it resolves.                                 *)
RECURSIVE FindPassSignalFirst(_, _, _, _, _, _)
FindPassSignalFirst(bs, cs, ncontacts, i, had, trace) ==
    IF i > ncontacts THEN [bodies |-> bs, had |-> had, trace |-> trace, oob |-> FALSE]
    ELSE IF i > Len(cs)
    THEN [bodies |-> bs, had |-> had, oob |-> TRUE,
          trace |-> Append(trace, Ev("colliding", i, FALSE, <<>>))]
    ELSE IF colliding(bs, cs[i])
    THEN With(collision(bs, cs[i], FindEpsilon), LAMBDA nb :
            FindPassSignalFirst(nb, cs, ncontacts, i + 1, TRUE,
                trace \o <<Ev("colliding", i, TRUE, <<>>), Ev("signal", i, TRUE, <<>>),
                           Ev("collision", i, TRUE, nb)>>))
    ELSE FindPassSignalFirst(bs, cs, ncontacts, i + 1, had,
            Append(trace, Ev("colliding", i, FALSE, <<>>)))

(* The loop running from the last contact to the first.                    *)
RECURSIVE FindPassReversed(_, _, _, _, _, _)
FindPassReversed(bs, cs, ncontacts, i, had, trace) ==
    IF i > ncontacts THEN [bodies |-> bs, had |-> had, trace |-> trace, oob |-> FALSE]
    ELSE IF ncontacts > Len(cs)
    THEN [bodies |-> bs, had |-> had, oob |-> TRUE,
          trace |-> Append(trace, Ev("colliding", ncontacts, FALSE, <<>>))]
    ELSE IF colliding(bs, cs[ncontacts + 1 - i])
    THEN With(collision(bs, cs[ncontacts + 1 - i], FindEpsilon), LAMBDA nb :
            FindPassReversed(nb, cs, ncontacts, i + 1, TRUE,
                trace \o <<Ev("colliding", ncontacts + 1 - i, TRUE, <<>>),
                           Ev("collision", ncontacts + 1 - i, TRUE, nb),
                           Ev("signal", ncontacts + 1 - i, TRUE, <<>>)>>))
    ELSE FindPassReversed(bs, cs, ncontacts, i + 1, had,
            Append(trace, Ev("colliding", ncontacts + 1 - i, FALSE, <<>>)))

RECURSIVE FindPass(_, _, _, _, _, _)
FindPass(bs, cs, ncontacts, i, had, trace) ==
    IF i > ncontacts THEN [bodies |-> bs, had |-> had, trace |-> trace, oob |-> FALSE]
    ELSE IF i > Len(cs)
    THEN [bodies |-> bs, had |-> had, oob |-> TRUE,
          trace |-> Append(trace, Ev("colliding", i, FALSE, <<>>))]
    ELSE IF colliding(bs, cs[i])
    THEN With(collision(bs, cs[i], FindEpsilon), LAMBDA nb :
            FindPass(nb, cs, ncontacts, i + 1, TRUE,
                trace \o <<Ev("colliding", i, TRUE, <<>>), Ev("collision", i, TRUE, nb),
                           Ev("signal", i, TRUE, <<>>)>>))
    ELSE FindPass(bs, cs, ncontacts, i + 1, had,
            Append(trace, Ev("colliding", i, FALSE, <<>>)))

(* Passes of the do-while loop the model follows before it gives up.       *)
MaxPasses == 6

(* The loop as a single pass over the contacts.                            *)
FindLoopOnePass(bs, cs, ncontacts, passes, trace, seen) ==
    With(FindPass(bs, cs, ncontacts, 1, FALSE, Append(trace, Ev("pass", 0, FALSE, <<>>))),
         LAMBDA r :
        [bodies |-> r.bodies, passes |-> passes + 1, trace |-> r.trace,
         signals |-> Count(r.trace, "signal"),
         outcome |-> IF r.oob THEN "out_of_range" ELSE "returned"])

(* The do-while loop of FindAllCollisions: the code sets no limit to the   *)
(* passes.  The loop is deterministic, so when a pass that had a collision *)
(* ends with the bodies as they were when an earlier pass began, it never  *)
(* ends: the outcome is "hang".  "cut" marks a run the model followed for  *)
(* MaxPasses passes without seeing it end or repeat, "out_of_range" one    *)
(* that read beyond the list.                                              *)
RECURSIVE FindLoop(_, _, _, _, _, _)
FindLoop(bs, cs, ncontacts, passes, trace, seen) ==
    With(FindPass(bs, cs, ncontacts, 1, FALSE, Append(trace, Ev("pass", 0, FALSE, <<>>))),
         LAMBDA r :
        LET out(o) == [bodies |-> r.bodies, passes |-> passes + 1, trace |-> r.trace,
                       signals |-> Count(r.trace, "signal"), outcome |-> o]
        IN  IF r.oob THEN out("out_of_range")
            ELSE IF ~r.had THEN out("returned")
            ELSE IF r.bodies \in seen THEN out("hang")
            ELSE IF passes + 1 >= MaxPasses THEN out("cut")
            ELSE FindLoop(r.bodies, cs, ncontacts, passes + 1, r.trace,
                          seen \cup {r.bodies}))

(* void FindAllCollisions(std::vector<Contact> &contacts, int ncontacts)   *)
FindAllCollisions(bs, cs, ncontacts) == FindLoop(bs, cs, ncontacts, 0, <<>>, {bs})

(* A null RigidBody pointer.  pt_velocity, colliding and collision read    *)
(* and write through c->a and c->b without a test, so a null one is        *)
(* undefined behaviour: the access faults (the process is killed by a      *)
(* signal), or it does not and the call goes on with whatever the access   *)
(* yields.                                                                 *)
Null == 0
IsNullContact(c) == c.a = Null \/ c.b = Null
NullDerefOutcomes == {"segfault", "continued"}

(* What a call that went on past a null access can leave in the body the   *)
(* contact does name: nothing, or values computed from what it read.       *)
VNaN == <<NaN, NaN, NaN>>
Clobbered(bs, c) ==
    {bs} \cup {[bs EXCEPT ![i].P = VNaN, ![i].L = VNaN, ![i].v = VNaN,
                          ![i].omega = VNaN] : i \in {c.a, c.b} \ {Null}}

-----------------------------------------------------------------------------
(* Bodies and contacts offered to the collision routines.                  *)

MaxMass == 2        \* masses offered: 1 .. MaxMass
MaxImpulses == 1    \* collision() is applied at most this often in a run

(* Restitution coefficients in [0, 1].                                     *)
Restitutions == {I(0), R(1, 2), I(1)}

(* A body at rest data (mass, x, P, L, Iinv) with v and omega derived from *)
(* the momenta, as collision leaves them.                                  *)
MakeBody(mass, x, P, L, Iinv) ==
    [mass |-> mass, x |-> x, P |-> P, L |-> L, Iinv |-> Iinv,
     v |-> VScale(RDiv(I(1), I(mass)), P), omega |-> MatVec(Iinv, L)]

(* Inverse inertia: glm::mat3(1.0f / mass) as the tests build it, and an   *)
(* anisotropic diagonal one.                                               *)
InertiaKinds == {"uniform", "anisotropic"}
InverseInertia(kind, mass) ==
    IF kind = "uniform" THEN Diag(R(1, mass), R(1, mass), R(1, mass))
    ELSE Diag(I(1), R(1, 2), R(1, mass))

(* Velocities of body A along x: approaching B fast and slowly, at the     *)
(* edges of the tolerance band, inside it, and separating.                 *)
VelocitiesA ==
    {<<I(2), Zero, Zero>>, <<R(1, 2), Zero, Zero>>, <<R(1, 4), Zero, Zero>>,
     <<R(1, 8), Zero, Zero>>, VZero, <<R(-1, 8), Zero, Zero>>,
     <<R(-1, 4), Zero, Zero>>, <<I(-1), I(1), Zero>>}
VelocitiesB == {VZero, V(-1, 0, 0)}
AngularMomentaA == {VZero, V(0, 0, 1)}

(* Contact points on and off the line of centres; the normal points from   *)
(* B (at x = 2) towards A (at the origin).                                 *)
ContactPoints == {V(1, 0, 0), V(1, 1, 0)}
Normals == {V(-1, 0, 0), <<R(-3, 5), R(4, 5), Zero>>}

InitialBodies ==
    {<<MakeBody(ma, VZero, VScale(I(ma), va), la, InverseInertia(ik, ma)),
       MakeBody(mb, V(2, 0, 0), VScale(I(mb), vb), VZero, InverseInertia(ik, mb))>> :
        ma \in 1 .. MaxMass, mb \in 1 .. MaxMass, va \in VelocitiesA,
        vb \in VelocitiesB, la \in AngularMomentaA, ik \in InertiaKinds}

NoCres == [op |-> "none", c |-> 0, ret |-> FALSE, vrel |-> Zero,
           epsilon |-> Zero, before |-> <<>>, outcome |-> "none",
           ncontacts |-> 0, passes |-> 0, signals |-> 0, trace |-> <<>>]

(* colliding(&contacts[i])                                                 *)
CallColliding ==
    /\ cres.op = "none"
    /\ \E i \in 1 .. Len(contacts) :
       IF IsNullContact(contacts[i])
       THEN \E o \in NullDerefOutcomes, ret \in BOOLEAN :
               cres' = [NoCres EXCEPT !.op = "colliding", !.c = i, !.outcome = o,
                          !.ret = (o = "continued" /\ ret), !.before = bodies]
       ELSE \E vrel \in {RelativeVelocity(bodies, contacts[i])} :
               cres' = [NoCres EXCEPT !.op = "colliding", !.c = i, !.vrel = vrel,
                          !.ret = colliding(bodies, contacts[i]),
                          !.outcome = "returned", !.before = bodies]
    /\ UNCHANGED <<odeVars, derivVars, bodies, contacts, impulses>>

(* collision(&contacts[i], epsilon)                                        *)
CallCollision ==
    /\ impulses < MaxImpulses
    /\ \E i \in 1 .. Len(contacts), epsilon \in Restitutions :
       IF IsNullContact(contacts[i])
       THEN \E o \in NullDerefOutcomes :
               /\ bodies' \in (IF o = "segfault" THEN {bodies}
                               ELSE Clobbered(bodies, contacts[i]))
               /\ cres' = [NoCres EXCEPT !.op = "collision", !.c = i,
                             !.epsilon = epsilon, !.outcome = o, !.before = bodies]
       ELSE \E vrel \in {RelativeVelocity(bodies, contacts[i])} :
               /\ bodies' = collision(bodies, contacts[i], epsilon)
               /\ cres' = [NoCres EXCEPT !.op = "collision", !.c = i, !.vrel = vrel,
                             !.epsilon = epsilon, !.outcome = "returned",
                             !.before = bodies]
    /\ impulses' = impulses + 1
    /\ UNCHANGED <<odeVars, derivVars, contacts>>

(* FindAllCollisions(contacts, ncontacts): ncontacts is an int the caller  *)
(* chooses, within the list, negative or beyond it.  The first             *)
(* colliding(&contacts[i]) on a contact with a null body, like the first   *)
(* on a contact beyond the list, is the undefined access.                  *)
CallFindAllCollisions ==
    /\ cres.op = "none"
    /\ \E ncontacts \in (-1) .. (Len(contacts) + 1) :
       IF \E i \in 1 .. ncontacts : i <= Len(contacts) /\ IsNullContact(contacts[i])
       THEN \E o \in NullDerefOutcomes :
            \E i \in {j \in 1 .. Len(contacts) : j <= ncontacts /\ IsNullContact(contacts[j])} :
               /\ bodies' \in (IF o = "segfault" THEN {bodies}
                               ELSE Clobbered(bodies, contacts[i]))
               /\ cres' = [NoCres EXCEPT !.op = "find", !.ncontacts = ncontacts,
                             !.outcome = o, !.before = bodies]
       ELSE \E r \in {FindAllCollisions(bodies, contacts, ncontacts)} :
            \E o \in (IF r.outcome = "out_of_range" THEN NullDerefOutcomes
                      ELSE {r.outcome}) :
               /\ bodies' = r.bodies
               /\ cres' = [NoCres EXCEPT !.op = "find", !.ncontacts = ncontacts,
                             !.outcome = o, !.passes = r.passes,
                             !.signals = r.signals, !.trace = r.trace,
                             !.before = bodies]
    /\ UNCHANGED <<odeVars, derivVars, contacts, impulses>>

InitCollision ==
    /\ solver = NoSolver
    /\ res = NoRes
    /\ hist = NoHist
    /\ bodies \in InitialBodies
    /\ contacts \in {<<[a |-> 1, b |-> 2, p |-> p, n |-> n]>> :
                        p \in ContactPoints, n \in Normals}
    /\ cres = NoCres
    /\ impulses = 0
    /\ deriv = <<>>

NextCollision ==
    \/ CallColliding
    \/ CallCollision

SpecCollision == InitCollision /\ [][NextCollision]_vars

-----------------------------------------------------------------------------
(* Contact lists for FindAllCollisions: three bodies A, B, C in a row on   *)
(* the x axis, built as the tests build them (createTestBody: P = v*mass,  *)
(* L = 0, omega = 0, Iinv = mat3(1/mass)), a body of mass zero included.   *)

TestBody(mass, x, v) ==
    [mass |-> mass, x |-> x, P |-> VScale(I(mass), v), L |-> VZero,
     Iinv |-> Diag(R(1, mass), R(1, mass), R(1, mass)), v |-> v, omega |-> VZero]

FindVelocitiesA == {V(1, 0, 0), <<R(1, 8), Zero, Zero>>, VZero, V(-1, 0, 0)}
FindVelocitiesB == {VZero, V(-1, 0, 0)}
FindVelocitiesC == {VZero, V(-2, 0, 0)}

FindBodies ==
    {<<TestBody(ma, VZero, va), TestBody(1, V(2, 0, 0), vb),
       TestBody(mc, V(4, 0, 0), vc)>> :
        ma \in 0 .. MaxMass, mc \in {1, MaxMass}, va \in FindVelocitiesA,
        vb \in FindVelocitiesB, vc \in FindVelocitiesC}

(* Contacts between A and B and between B and C, the normal pointing from  *)
(* the second body towards the first; a zero-length normal; a contact      *)
(* point off the line of centres; contacts with a null body.               *)
ContactAB(p, n) == [a |-> 1, b |-> 2, p |-> p, n |-> n]
ContactBC == [a |-> 2, b |-> 3, p |-> V(3, 0, 0), n |-> V(-1, 0, 0)]
FindContacts ==
    {<<ContactAB(V(1, 0, 0), V(-1, 0, 0))>>,
     <<ContactAB(V(1, 0, 0), VZero)>>,
     <<ContactAB(V(1, 1, 0), V(-1, 0, 0))>>,
     <<ContactAB(V(1, 0, 0), V(-1, 0, 0)), ContactBC>>,
     <<ContactBC, ContactAB(V(1, 0, 0), V(-1, 0, 0))>>,
     <<ContactAB(V(1, 0, 0), VZero), ContactBC>>,
     <<[ContactBC EXCEPT !.a = Null]>>,
     <<ContactAB(V(1, 0, 0), V(-1, 0, 0)), [ContactBC EXCEPT !.b = Null]>>}

InitFind ==
    /\ solver = NoSolver
    /\ res = NoRes
    /\ hist = NoHist
    /\ bodies \in FindBodies
    /\ contacts \in FindContacts
    /\ cres = NoCres
    /\ impulses = 0
    /\ deriv = <<>>

NextFind ==
    \/ CallColliding
    \/ CallCollision
    \/ CallFindAllCollisions

SpecFind == InitFind /\ [][NextFind]_vars

(* One call of collision or of FindAllCollisions on a pair of spinning     *)
(* bodies.                                                                 *)
InitContact == InitCollision

NextContact ==
    \/ cres.op = "none" /\ CallCollision
    \/ CallFindAllCollisions

SpecContact == InitContact /\ [][NextContact]_vars

-----------------------------------------------------------------------------
(* The derivative function of the rigid-body state (DerivFunc.cpp).  A     *)
(* std::vector<double> is a sequence; the element the code calls v[k] is   *)
(* v[k + 1] here.                                                          *)

STATE_SIZE == 18
NBODIES == 1
ExtendedSize == 24
Gravity == R(-981, 100)
Mass == I(1)

(* ArrayToState(y, rigidBodyState, offset): the 18 fields from offset on.  *)
ArrayToState(y, offset) == [k \in 1 .. STATE_SIZE |-> y[offset + k]]

(* ComputeForceAndTorque(t, rigidBodyState): the state resized to 24, with *)
(* F = (0, -9.81, 0) and torque (0, 0, 0) in the last six slots.           *)
ComputeForceAndTorque(t, rigidBodyState) ==
    [k \in 1 .. ExtendedSize |->
        IF k <= STATE_SIZE /\ k <= Len(rigidBodyState) THEN rigidBodyState[k]
        ELSE IF k = STATE_SIZE + 2 THEN Gravity
        ELSE Zero]

(* Star(omega, omegaStar): the skew-symmetric matrix of omega, row-major.  *)
Star(omega) ==
    <<Zero, RNeg(omega[3]), omega[2],
      omega[3], Zero, RNeg(omega[1]),
      RNeg(omega[2]), omega[1], Zero>>

(* The eighteen values DdtStateToArray computes for one body: v = P/mass,  *)
(* Rdot = Star(omega) * R with omega = L (the inverse inertia is the       *)
(* identity), then the force and the torque, read from the extended state  *)
(* when it has 24 elements and fixed otherwise.                            *)
DerivativeBlock(rigidBodyState) ==
    LET v == <<RDiv(rigidBodyState[13], Mass), RDiv(rigidBodyState[14], Mass),
               RDiv(rigidBodyState[15], Mass)>>
        omega == <<rigidBodyState[16], rigidBodyState[17], rigidBodyState[18]>>
        omegaStar == Star(omega)
        Rm(k, j) == rigidBodyState[3 + k * 3 + j + 1]
        sum(i, j) == RAdd(RAdd(RAdd(Zero, RMul(omegaStar[i * 3 + 1], Rm(0, j))),
                               RMul(omegaStar[i * 3 + 2], Rm(1, j))),
                          RMul(omegaStar[i * 3 + 3], Rm(2, j)))
        Rdot == [k \in 1 .. 9 |-> sum((k - 1) \div 3, (k - 1) % 3)]
        force == IF Len(rigidBodyState) >= ExtendedSize
                 THEN [k \in 1 .. 6 |-> rigidBodyState[STATE_SIZE + k]]
                 ELSE <<Zero, Gravity, Zero, Zero, Zero, Zero>>
    IN  v \o Rdot \o force

(* DdtStateToArray(rigidBodyState, xdot, offset): xdot with the block at   *)
(* offset overwritten; nothing is written for a state shorter than 18.     *)
DdtStateToArray(rigidBodyState, xdot, offset) ==
    IF Len(rigidBodyState) < STATE_SIZE THEN xdot
    ELSE With(DerivativeBlock(rigidBodyState), LAMBDA d :
            [k \in 1 .. Len(xdot) |->
                IF offset < k /\ k <= offset + STATE_SIZE THEN d[k - offset]
                ELSE xdot[k]])

(* The loop of Dxdt over the bodies i .. NBODIES - 1.                      *)
RECURSIVE DxdtBodies(_, _, _, _)
DxdtBodies(t, x, xdot, i) ==
    IF i >= NBODIES THEN xdot
    ELSE DxdtBodies(t, x,
            DdtStateToArray(ComputeForceAndTorque(t, ArrayToState(x, i * STATE_SIZE)),
                            xdot, i * STATE_SIZE),
            i + 1)

(* Variants of the size test of Dxdt: one that also returns for every      *)
(* length that is not a whole multiple of 18, one that does not test.      *)
DxdtMultiplesOnly(t, x, xdot) ==
    IF \/ Len(x) < STATE_SIZE * NBODIES \/ Len(xdot) < STATE_SIZE * NBODIES
       \/ Len(x) % STATE_SIZE # 0 \/ Len(xdot) % STATE_SIZE # 0
    THEN xdot
    ELSE DxdtBodies(t, x, xdot, 0)

(* Dxdt(t, x, xdot): the value of xdot on return.                          *)
Dxdt(t, x, xdot) ==
    IF Len(x) < STATE_SIZE * NBODIES \/ Len(xdot) < STATE_SIZE * NBODIES
    THEN xdot
    ELSE DxdtBodies(t, x, xdot, 0)

(* State vectors offered to Dxdt: up to MaxBodies bodies and one element   *)
(* more, every length in between.  Body i has its own position and         *)
(* momenta; the rotation is the identity or a quarter turn about z.        *)
MaxBodies == 2
BodyKinds == {"identity", "turned"}
BodyState(kind, i) ==
    <<I(i + 1), I(2), I(3)>>
    \o (IF kind = "identity"
        THEN <<I(1), Zero, Zero, Zero, I(1), Zero, Zero, Zero, I(1)>>
        ELSE <<Zero, I(-1), Zero, I(1), Zero, Zero, Zero, Zero, I(1)>>)
    \o <<I(5 + i), Gravity, Zero>>
    \o (IF kind = "identity" THEN <<R(1, 10), R(2, 10), R(3, 10)>>
        ELSE <<I(1), I(2), I(i + 3)>>)
VectorLengths == 0 .. (STATE_SIZE * MaxBodies + 1)
StateVector(kind, n) ==
    [k \in 1 .. n |-> BodyState(kind, (k - 1) \div STATE_SIZE)[((k - 1) % STATE_SIZE) + 1]]
Fill == I(7)
OutputVector(n) == [k \in 1 .. n |-> Fill]
Times == {0, 1}

NoDeriv == [op |-> "none", t |-> 0, x |-> <<>>, xdot |-> <<>>, before |-> <<>>]

CallDxdt ==
    /\ deriv.op = "none"
    /\ \E t \in Times :
       \E r \in {Dxdt(t, deriv.x, deriv.xdot)} :
          deriv' = [deriv EXCEPT !.op = "Dxdt", !.t = t, !.xdot = r]
    /\ UNCHANGED <<odeVars, colVars>>

InitDxdt ==
    /\ solver = NoSolver
    /\ res = NoRes
    /\ hist = NoHist
    /\ bodies = <<>>
    /\ contacts = <<>>
    /\ cres = <<>>
    /\ impulses = 0
    /\ deriv \in {[NoDeriv EXCEPT !.x = StateVector(kind, n), !.xdot = OutputVector(m),
                                  !.before = OutputVector(m)] :
                      kind \in BodyKinds, n \in VectorLengths, m \in VectorLengths}

NextDxdt == CallDxdt

SpecDxdt == InitDxdt /\ [][NextDxdt]_vars

-----------------------------------------------------------------------------
(* Properties of ode (checked under SpecOde).                              *)

OdeCalled == res.op = "ode"
OdeValid == OdeCalled /\ Len(res.x0) > 0 /\ res.t1 > res.t0

CallsPerStep(kind) == IF kind = "euler" THEN 1 ELSE 4

(* C1 as stated: for both solvers, ode with valid inputs returns after     *)
(* exactly n whole steps of size h, n the largest integer with             *)
(* t0 + n*h <= t1 + eps, and never takes a partial step.  (What the claim  *)
(* says of xEnd and of the value returned follows the number of steps and  *)
(* is compared through it, so that no rounding of a value counts against   *)
(* the claim.)                                                             *)
C1_Original ==
    OdeValid =>
        /\ res.threw = "none"
        /\ ~res.hang
        /\ res.t0 + res.steps * res.h <= res.t1 + Eps
        /\ res.t0 + (res.steps + 1) * res.h > res.t1 + Eps
        /\ Len(res.calls) = res.steps * CallsPerStep(res.kind)

C4_InvalidArguments ==
    (OdeCalled /\ (Len(res.x0) = 0 \/ res.t1 <= res.t0)) =>
        /\ res.threw = "invalid_argument"
        /\ res.calls = <<>>
        /\ res.xEnd = res.xEndIn

C4_Witness ==
    /\ OdeCalled
    /\ res.kind = "rk4"
    /\ Len(res.x0) > 0
    /\ res.t1 = res.t0
    /\ res.threw = "invalid_argument"

-----------------------------------------------------------------------------
(* Properties of the constructors, setStepSize and the factory (checked    *)
(* under SpecSolver).                                                      *)

TakesStepSize == res.op \in {"construct", "setStepSize", "create"}

(* C5: constructing a solver, setStepSize and createODESolver with a step  *)
(* size <= 0 fail with invalid_argument; the value is not clamped or       *)
(* replaced by a default: the client's solver is what it was before.       *)
C5_NonPositiveStepRejected ==
    (TakesStepSize /\ res.h <= 0) =>
        /\ res.threw = "invalid_argument"
        /\ solver = res.before

C5_Witness ==
    /\ res.op = "setStepSize"
    /\ res.h = 0
    /\ res.threw = "invalid_argument"
    /\ solver.h > 0

C7_UnknownTagRejected ==
    (res.op = "create" /\ res.tag \notin {"euler", "rk4"}) =>
        /\ res.threw = "invalid_argument"
        /\ res.kind = "none"
        /\ solver = res.before

C7_Witness ==
    /\ res.op = "create"
    /\ res.tag = "EULER"
    /\ res.h > 0
    /\ res.threw = "invalid_argument"

-----------------------------------------------------------------------------
(* Properties of colliding and collision (checked under SpecCollision).    *)

C10_LinearMomentum ==
    cres.op = "collision" =>
        VAdd(bodies[contacts[cres.c].a].P, bodies[contacts[cres.c].b].P)
            = VAdd(cres.before[contacts[cres.c].a].P,
                   cres.before[contacts[cres.c].b].P)

C10_Witness ==
    /\ cres.op = "collision"
    /\ cres.epsilon = R(1, 2)
    /\ bodies[1].mass # bodies[2].mass
    /\ contacts[1].p = V(1, 1, 0)
    /\ bodies[1].P # cres.before[1].P
    /\ bodies[2].P # cres.before[2].P

(* The angular momentum of the body b about the world point o:             *)
(* L + (x - o) x P.                                                        *)
AngularMomentumAbout(b, o) == VAdd(b.L, Cross(VSub(b.x, o), b.P))
TotalAngularMomentum(bs, c, o) ==
    VAdd(AngularMomentumAbout(bs[c.a], o), AngularMomentumAbout(bs[c.b], o))

(* C11: collision(c, epsilon) leaves the total angular momentum of the     *)
(* contact pair unchanged, about the world origin and about another fixed  *)
(* world point, for every restitution, pair of masses and contact point    *)
(* offered, those off the line of centres included.                        *)
C11_AngularMomentum ==
    cres.op = "collision" =>
        \A o \in {VZero, V(1, 2, 3)} :
            TotalAngularMomentum(bodies, contacts[cres.c], o)
                = TotalAngularMomentum(cres.before, contacts[cres.c], o)

C11_Witness ==
    /\ cres.op = "collision"
    /\ contacts[1].p = V(1, 1, 0)
    /\ bodies[1].mass # bodies[2].mass
    /\ bodies[1].L # cres.before[1].L
    /\ bodies[2].L # cres.before[2].L
    /\ cres.before[1].L # VZero

(* A head-on configuration: the contact point on the line of centres, a    *)
(* unit normal along that line, no angular momentum and no spin.           *)
HeadOn(bs, c) ==
    With(VSub(bs[c.b].x, bs[c.a].x), LAMBDA line :
        /\ Cross(VSub(c.p, bs[c.a].x), line) = VZero
        /\ Cross(c.n, line) = VZero
        /\ Dot(c.n, c.n) = I(1)
        /\ \A i \in {c.a, c.b} : bs[i].L = VZero /\ bs[i].omega = VZero)

(* C12: for two bodies of equal mass head-on, collision(c, 1.0) exchanges  *)
(* the velocity components along the normal: a.v.n afterwards is b.v.n     *)
(* before, and b.v.n afterwards is a.v.n before.                           *)
C12_ElasticExchange ==
    (/\ cres.op = "collision"
     /\ cres.epsilon = I(1)
     /\ cres.before[1].mass = cres.before[2].mass
     /\ HeadOn(cres.before, contacts[cres.c])) =>
        With(contacts[cres.c], LAMBDA c :
            /\ Dot(bodies[c.a].v, c.n) = Dot(cres.before[c.b].v, c.n)
            /\ Dot(bodies[c.b].v, c.n) = Dot(cres.before[c.a].v, c.n))

C12_Witness ==
    /\ cres.op = "collision"
    /\ cres.epsilon = I(1)
    /\ cres.before[1].mass = 2
    /\ cres.before[2].mass = 2
    /\ HeadOn(cres.before, contacts[cres.c])
    /\ cres.before[1].v = <<I(-1), I(1), Zero>>
    /\ cres.before[2].v = V(-1, 0, 0) \/ cres.before[2].v = VZero
    /\ bodies[1].v # cres.before[1].v

-----------------------------------------------------------------------------
(* Properties of FindAllCollisions and of the collision routines on bad    *)
(* contacts (checked under SpecFind).                                      *)

(* A call of FindAllCollisions, and one whose ncontacts is within the list *)
FindCalledAny == cres.op = "find"
FindCalled == FindCalledAny /\ cres.ncontacts \in 0 .. Len(contacts)
Listed == 1 .. cres.ncontacts
NoNullListed == \A i \in Listed : ~IsNullContact(contacts[i])

(* C13: FindAllCollisions on a list in which colliding is false for every  *)
(* listed contact returns after one pass, leaves every field of every body *)
(* as it was and never calls ode_discontinuous.                            *)
C13_NoApproaching ==
    (/\ FindCalled
     /\ NoNullListed
     /\ \A i \in Listed : ~colliding(cres.before, contacts[i])) =>
        /\ cres.outcome = "returned"
        /\ cres.passes = 1
        /\ cres.signals = 0
        /\ bodies = cres.before

C13_Witness ==
    /\ FindCalled
    /\ cres.ncontacts = 2
    /\ NoNullListed
    /\ \A i \in Listed : ~colliding(cres.before, contacts[i])
    /\ cres.before[1].v = V(-1, 0, 0)
    /\ cres.before[2].v = V(-1, 0, 0)
    /\ cres.before[1].mass = 2
    /\ cres.passes = 1

(* A contact as the claims about resolution take it: both masses positive, *)
(* a unit normal, v = P / mass and omega = Iinv * L.                       *)
WellFormed(bs, c) ==
    /\ Dot(c.n, c.n) = I(1)
    /\ \A i \in {c.a, c.b} :
          /\ bs[i].mass > 0
          /\ bs[i].v = VScale(RDiv(I(1), I(bs[i].mass)), bs[i].P)
          /\ bs[i].omega = MatVec(bs[i].Iinv, bs[i].L)

C15_Original ==
    (FindCalled /\ NoNullListed) =>
        /\ cres.outcome = "returned"
        /\ cres.passes <= MaxPasses

(* Whether the call named a contact with a null body.                      *)
NullGiven ==
    \/ cres.op \in {"colliding", "collision"} /\ IsNullContact(contacts[cres.c])
    \/ FindCalled /\ ~NoNullListed

(* C16 as stated: colliding, collision and FindAllCollisions given a       *)
(* contact with a null body stop at once with a failure (a fault of the    *)
(* access is counted as one); they do not go on computing.                 *)
C16_Original ==
    NullGiven =>
        /\ cres.outcome \in {"assertion", "error", "segfault"}
        /\ bodies = cres.before

Degenerate(bs, c) == c.n = VZero \/ bs[c.a].mass = 0 \/ bs[c.b].mass = 0
DegenerateGiven ==
    \/ /\ cres.op = "collision"
       /\ ~IsNullContact(contacts[cres.c])
       /\ Degenerate(cres.before, contacts[cres.c])
    \/ /\ FindCalled
       /\ NoNullListed
       /\ \E i \in Listed : Degenerate(cres.before, contacts[i])

HasSpecial(v) == \E i \in 1 .. 3 : IsSpecial(v[i])

(* C17 as stated: collision and FindAllCollisions given a contact with a   *)
(* zero-length normal or a body of zero mass report a failure and write no *)
(* NaN and no infinity into P, L, v or omega of any body.                  *)
C17_Original ==
    DegenerateGiven =>
        /\ cres.outcome = "error"
        /\ \A i \in 1 .. Len(bodies) :
              ~(HasSpecial(bodies[i].P) \/ HasSpecial(bodies[i].L)
                \/ HasSpecial(bodies[i].v) \/ HasSpecial(bodies[i].omega))

-----------------------------------------------------------------------------
(* Properties of Dxdt (checked under SpecDxdt).                            *)

DxdtCalled == deriv.op = "Dxdt"

(* The derivative of body i of the state vector x at time t.               *)
BodyDerivative(t, x, i) ==
    DerivativeBlock(ComputeForceAndTorque(t, ArrayToState(x, i * STATE_SIZE)))

(* Block i of xdot holds body i's derivative.                              *)
BlockWritten(i) ==
    \A k \in 1 .. STATE_SIZE :
        deriv.xdot[i * STATE_SIZE + k] = BodyDerivative(deriv.t, deriv.x, i)[k]

(* Every element of xdot outside block 0 is what it was before the call.   *)
RestUntouched ==
    \A k \in (STATE_SIZE + 1) .. Len(deriv.xdot) : deriv.xdot[k] = deriv.before[k]

(* C18 as stated: for x holding k >= 1 bodies (length 18*k) and xdot of    *)
(* the same length, Dxdt writes the derivative of body i into block i of   *)
(* xdot, for every i in 0 .. k-1.                                          *)
C18_Original ==
    (/\ DxdtCalled
     /\ Len(deriv.x) >= STATE_SIZE
     /\ Len(deriv.x) % STATE_SIZE = 0
     /\ Len(deriv.xdot) = Len(deriv.x)) =>
        \A i \in 0 .. (Len(deriv.x) \div STATE_SIZE) - 1 : BlockWritten(i)

Malformed == Len(deriv.x) % STATE_SIZE # 0 \/ Len(deriv.xdot) % STATE_SIZE # 0

(* C19 as stated: Dxdt called with the length of x or of xdot not a whole  *)
(* multiple of 18, shorter or longer than 18, returns without changing     *)
(* any element of xdot.                                                    *)
C19_Original ==
    (DxdtCalled /\ Malformed) => deriv.xdot = deriv.before

(* C19 amended: Dxdt returns without changing xdot exactly when x or xdot  *)
(* has fewer than 18 elements.  With both of 18 elements or more, whole    *)
(* multiple of 18 or not, it writes the derivative of body 0 into          *)
(* xdot[0 .. 17] and leaves every other element of xdot as it was.         *)
C19_ShortOnly ==
    DxdtCalled =>
        /\ Len(deriv.xdot) = Len(deriv.before)
        /\ IF Len(deriv.x) < STATE_SIZE \/ Len(deriv.xdot) < STATE_SIZE
           THEN deriv.xdot = deriv.before
           ELSE /\ BlockWritten(0)
                /\ RestUntouched
                /\ deriv.xdot # deriv.before

C19_Witness ==
    /\ DxdtCalled
    /\ Malformed
    /\ Len(deriv.x) = STATE_SIZE + 1
    /\ Len(deriv.xdot) = 2 * STATE_SIZE - 1
    /\ deriv.xdot[1] = I(5)
    /\ deriv.xdot[2 * STATE_SIZE - 1] = Fill

-----------------------------------------------------------------------------
(* C20 as stated: EulerSolver::ode on dx/dt = c returns x0 + c*n*h after   *)
(* its n steps, so whenever h divides t1 - t0 the result is                *)
(* x0 + c*(t1 - t0), whatever the step size (checked under SpecOde).       *)
C20_Original ==
    (/\ OdeValid
     /\ res.kind = "euler"
     /\ res.f = "constant"
     /\ res.threw = "none"
     /\ ~res.hang) =>
        /\ res.xEnd[1] = RAdd(res.x0[1], I(ConstantC * res.steps * res.h))
        /\ (res.t1 - res.t0) % res.h = 0 =>
              res.xEnd[1] = RAdd(res.x0[1], I(ConstantC * (res.t1 - res.t0)))

-----------------------------------------------------------------------------
(* Accuracy of the solvers on the smooth systems (checked under            *)
(* SpecAccuracy).  The exact solutions at t = 1 are exp(-1) and exp(1);    *)
(* each is known here by an enclosure between two convergents of its       *)
(* continued fraction, and an error |x - exact| by the bounds that follow  *)
(* from the enclosure.                                                     *)

RAbs(a) == IF a[1] < 0 THEN RNeg(a) ELSE a

(* n1/d1 <= n2/d2 for numerators >= 0 and denominators > 0, decided on the *)
(* continued fractions of the two, without a product that could leave the  *)
(* range of the integers.                                                  *)
RECURSIVE Below(_, _, _, _)
Below(n1, d1, n2, d2) ==
    IF n1 \div d1 # n2 \div d2 THEN n1 \div d1 < n2 \div d2
    ELSE IF n1 % d1 = 0 THEN TRUE
    ELSE IF n2 % d2 = 0 THEN FALSE
    ELSE Below(d2, n2 % d2, d1, n1 % d1)

(* a <= b and a < b for rationals of either sign.                          *)
WideLeq(a, b) ==
    IF a[1] < 0 /\ b[1] >= 0 THEN TRUE
    ELSE IF a[1] >= 0 /\ b[1] < 0 THEN FALSE
    ELSE IF a[1] < 0 THEN Below(-b[1], b[2], -a[1], a[2])
    ELSE Below(a[1], a[2], b[1], b[2])
WideLess(a, b) == ~WideLeq(b, a)

RMax(a, b) == IF WideLeq(a, b) THEN b ELSE a
RMin(a, b) == IF WideLeq(a, b) THEN a ELSE b

ExpMinusOne == <<R(32, 87), R(39, 106)>>
ExpOne == <<R(106, 39), R(193, 71)>>

ErrorAtMost(x, exact) == RMax(RAbs(RSub(x, exact[1])), RAbs(RSub(x, exact[2])))
ErrorAtLeast(x, exact) ==
    IF WideLeq(exact[1], x) /\ WideLeq(x, exact[2]) THEN Zero
    ELSE RMin(RAbs(RSub(x, exact[1])), RAbs(RSub(x, exact[2])))

(* The call recorded in res, made with the step size h by the other kind   *)
(* of solver.                                                              *)
SameCall(kind, h) == Ode(kind, h, res.x0, res.xEndIn, res.t0, res.t1, res.f)

RK4OnDecay ==
    /\ OdeCalled
    /\ res.kind = "rk4"
    /\ res.f = "relax"
    /\ res.x0 = <<I(1)>>
    /\ res.t0 = 0
    /\ res.t1 = UnitTicks

EulerOnGrowth ==
    /\ OdeCalled
    /\ res.kind = "euler"
    /\ res.f = "growth"
    /\ res.x0 = <<I(1)>>
    /\ res.t0 = 0
    /\ res.t1 = UnitTicks

(* The steps taken with step size h end at t1 exactly.                     *)
Covers(steps, h) == steps * h = res.t1 - res.t0

-----------------------------------------------------------------------------
(* The step size over a session (checked under SpecSession).               *)

(* C23: whatever calls of setStepSize, getStepSize and ode were made on a  *)
(* solver, its step size is the argument of the most recent setStepSize    *)
(* that did not throw, or the constructor's when there was none:           *)
(* getStepSize returns it; a setStepSize that throws, a getStepSize and an *)
(* ode call, throwing or not, leave the solver as it was; and an ode call  *)
(* integrates with it.                                                     *)
C23_StepSizeKept ==
    /\ getStepSize(solver) = hist.step
    /\ res.op = "getStepSize" => (res.ret = hist.step /\ solver = res.before)
    /\ (res.op = "setStepSize" /\ res.threw # "none") => solver = res.before
    /\ res.op = "ode" =>
          /\ solver = res.before
          /\ res.threw = "none" =>
                /\ res.steps = Ode(res.kind, hist.step, res.x0, res.xEndIn, res.t0,
                                   res.t1, res.f).steps
                /\ res.xEnd[1] = RAdd(res.x0[1], I(ConstantC * res.steps * hist.step))

C23_Witness ==
    /\ res.op = "ode"
    /\ res.threw = "none"
    /\ hist.sets
    /\ hist.rejected
    /\ hist.odes
    /\ hist.step = MaxStep
    /\ res.steps = 1
    /\ res.xEnd[1] = I(1 + ConstantC * MaxStep)

-----------------------------------------------------------------------------
(* Properties of the run of FindAllCollisions (checked under SpecFind).    *)

RECURSIVE SumP(_, _)
SumP(bs, k) == IF k = 0 THEN VZero ELSE VAdd(SumP(bs, k - 1), bs[k].P)
TotalMomentum(bs) == SumP(bs, Len(bs))

(* The events of the call, by position in the trace.                       *)
Events == 1 .. Len(cres.trace)

(* C24 as stated: in every state reached during and after                  *)
(* FindAllCollisions (the bodies after each collision applied and the      *)
(* bodies at the end), the sum of P over all bodies is what it was before  *)
(* the call, for every list of contacts.                                   *)
C24_Original ==
    (FindCalled /\ NoNullListed) =>
        /\ TotalMomentum(bodies) = TotalMomentum(cres.before)
        /\ \A k \in Events :
              cres.trace[k].ev = "collision" =>
                  TotalMomentum(cres.trace[k].bodies) = TotalMomentum(cres.before)

(* The position in the trace at which the last pass of the call begins.    *)
LastPass == CHOOSE k \in Events :
                /\ cres.trace[k].ev = "pass"
                /\ \A m \in Events : cres.trace[m].ev = "pass" => m <= k

(* C25: when FindAllCollisions returns, colliding(c) is false for every    *)
(* contact of contacts[0 .. ncontacts-1]: the loop makes full passes and   *)
(* ends only after a pass that examined every contact, classified none as  *)
(* colliding and applied no impulse.                                       *)
C25_NoneColliding ==
    (FindCalled /\ NoNullListed /\ cres.outcome = "returned") =>
        /\ \A i \in Listed : ~colliding(bodies, contacts[i])
        /\ cres.passes = Count(cres.trace, "pass")
        /\ Count(cres.trace, "colliding") = cres.passes * cres.ncontacts
        /\ Len(cres.trace) = LastPass + cres.ncontacts
        /\ \A i \in Listed :
              /\ cres.trace[LastPass + i].ev = "colliding"
              /\ cres.trace[LastPass + i].i = i
              /\ ~cres.trace[LastPass + i].ret

C25_Witness ==
    /\ FindCalled
    /\ NoNullListed
    /\ cres.outcome = "returned"
    /\ cres.ncontacts = 2
    /\ cres.passes = 3
    /\ \E i \in Listed : colliding(cres.before, contacts[i])
    /\ \A i \in Listed : ~colliding(bodies, contacts[i])

(* C26: in FindAllCollisions ode_discontinuous is signalled exactly once   *)
(* for each resolved contact, right after that contact's collision() and   *)
(* before anything else is examined; it is never signalled for a contact   *)
(* that was not resolved, and the signals of a call are as many as the     *)
(* applications of collision().                                            *)
C26_SignalPerCollision ==
    (FindCalled /\ NoNullListed) =>
        /\ cres.signals = Count(cres.trace, "signal")
        /\ Count(cres.trace, "signal") = Count(cres.trace, "collision")
        /\ \A k \in Events :
              /\ cres.trace[k].ev = "collision" =>
                    /\ k > 1
                    /\ cres.trace[k - 1].ev = "colliding"
                    /\ cres.trace[k - 1].ret
                    /\ cres.trace[k - 1].i = cres.trace[k].i
                    /\ k < Len(cres.trace)
                    /\ cres.trace[k + 1].ev = "signal"
                    /\ cres.trace[k + 1].i = cres.trace[k].i
              /\ cres.trace[k].ev = "signal" =>
                    /\ k > 1
                    /\ cres.trace[k - 1].ev = "collision"
                    /\ cres.trace[k - 1].i = cres.trace[k].i
              /\ (cres.trace[k].ev = "colliding" /\ ~cres.trace[k].ret) =>
                    (k = Len(cres.trace) \/ cres.trace[k + 1].ev \in {"colliding", "pass"})

C26_Witness ==
    /\ FindCalled
    /\ NoNullListed
    /\ cres.outcome = "returned"
    /\ cres.ncontacts = 2
    /\ cres.signals = 3
    /\ Count(cres.trace, "collision") = 3
    /\ Count(cres.trace, "colliding") = 6

-----------------------------------------------------------------------------
(* The stages of RK4Solver::ode (checked under SpecOde).                   *)

(* t_current after n passes of the loop.                                   *)
RECURSIVE TimeAfter(_, _, _)
TimeAfter(t, h, n) == IF n = 0 THEN t ELSE TimeAfter(TimeAdd(t, h), h, n - 1)

(* f(t, x): what the derivative function leaves in a buffer of zeros.      *)
Slope(t, x) == CallDeriv(res.f, t, x, Zeros(Len(x)))

(* The state the n-th step of the call (from 0) starts from, and the       *)
(* state it leaves: that of the next step, or xEnd after the last one.     *)
StepStart(n) == res.calls[4 * n + 1][2]
StepEnd(n) == IF n + 1 < res.steps THEN StepStart(n + 1) ELSE res.xEnd

(* C27: each RK4Solver step evaluates the derivative exactly four times,   *)
(* in the order k1 = f(t, x), k2 = f(t + h/2, x + h*k1/2),                 *)
(* k3 = f(t + h/2, x + h*k2/2), k4 = f(t + h, x + h*k3), every stage input *)
(* built from the state x at the start of the step, then sets x to         *)
(* x + (h/6)*(k1 + 2*k2 + 2*k3 + k4) and advances t by h; a call of n      *)
(* steps evaluates it 4*n times.                                           *)
C27_FourStages ==
    (OdeValid /\ res.kind = "rk4" /\ res.threw = "none" /\ ~res.hang) =>
        /\ Len(res.calls) = 4 * res.steps
        /\ res.steps = 0 => res.xEnd = res.x0
        /\ res.steps > 0 => StepStart(0) = res.x0
        /\ res.ret = TimeSub(res.t1, TimeAfter(res.t0, res.h, res.steps))
        /\ \A n \in 0 .. (res.steps - 1) :
              LET t == TimeAfter(res.t0, res.h, n)
                  x == StepStart(n)
                  tm == RoundDouble(RAdd(I(t), R(res.h, 2)))
                  k1 == Slope(I(t), x)
                  x2 == [i \in 1 .. Len(x) |-> RAdd(x[i], RMul(R(res.h, 2), k1[i]))]
                  k2 == Slope(tm, x2)
                  x3 == [i \in 1 .. Len(x) |-> RAdd(x[i], RMul(R(res.h, 2), k2[i]))]
                  k3 == Slope(tm, x3)
                  x4 == [i \in 1 .. Len(x) |-> RAdd(x[i], RMul(I(res.h), k3[i]))]
                  k4 == Slope(I(TimeAfter(res.t0, res.h, n + 1)), x4)
              IN  /\ res.calls[4 * n + 1] = <<I(t), x>>
                  /\ res.calls[4 * n + 2] = <<tm, x2>>
                  /\ res.calls[4 * n + 3] = <<tm, x3>>
                  /\ res.calls[4 * n + 4] = <<I(TimeAfter(res.t0, res.h, n + 1)), x4>>
                  /\ TimeAfter(res.t0, res.h, n + 1) = TimeAdd(t, res.h)
                  /\ StepEnd(n) =
                        [i \in 1 .. Len(x) |->
                            RAdd(x[i],
                                 RMul(R(res.h, 6),
                                      RAdd(RAdd(RAdd(k1[i], RMul(I(2), k2[i])),
                                                RMul(I(2), k3[i])), k4[i])))]

C27_Witness ==
    /\ OdeValid
    /\ res.kind = "rk4"
    /\ res.threw = "none"
    /\ ~res.hang
    /\ res.f = "decay"
    /\ res.steps = 2
    /\ Len(res.calls) = 8
    /\ Len(res.x0) = 2
    /\ res.calls[3] # res.calls[2]
    /\ res.calls[5][2] # res.x0

-----------------------------------------------------------------------------
(* The bodies as they are when event k of the call happens: as the last    *)
(* collision() before it left them, or as they were given.                 *)
BodiesAt(k) ==
    LET prior == {m \in 1 .. (k - 1) : cres.trace[m].ev = "collision"}
    IN  IF prior = {} THEN cres.before
        ELSE cres.trace[CHOOSE m \in prior : \A q \in prior : q <= m].bodies

Distinct(c) == c.a # c.b

(* v = P/mass and omega = Iinv*L as doubles compare: a NaN equals nothing, *)
(* so the momenta and velocities that are equal are numbers.               *)
Consistent(bs, c) ==
    /\ WellFormed(bs, c)
    /\ \A i \in {c.a, c.b} :
          ~(HasSpecial(bs[i].P) \/ HasSpecial(bs[i].L) \/ HasSpecial(bs[i].v)
              \/ HasSpecial(bs[i].omega))

(* C28: for a contact with a unit normal between two distinct bodies of    *)
(* positive mass with v = P/mass and omega = Iinv*L, the relative normal   *)
(* velocity after collision(c, epsilon) is -epsilon times the one before;  *)
(* in FindAllCollisions, where epsilon is 0.5, every resolved contact is   *)
(* left with half its approach speed, reversed, and so is the difference   *)
(* of the two velocities along the normal of a head-on pair.               *)
C28_Restitution ==
    /\ (/\ cres.op = "collision"
        /\ cres.outcome = "returned"
        /\ Distinct(contacts[cres.c])
        /\ Consistent(cres.before, contacts[cres.c])) =>
           RelativeVelocity(bodies, contacts[cres.c]) =
              RMul(RNeg(cres.epsilon), RelativeVelocity(cres.before, contacts[cres.c]))
    /\ (FindCalled /\ NoNullListed) =>
           \A k \in Events :
              (/\ cres.trace[k].ev = "collision"
               /\ Distinct(contacts[cres.trace[k].i])
               /\ Consistent(BodiesAt(k), contacts[cres.trace[k].i])) =>
                 With(contacts[cres.trace[k].i], LAMBDA c :
                    /\ RelativeVelocity(cres.trace[k].bodies, c) =
                          RMul(R(-1, 2), RelativeVelocity(BodiesAt(k), c))
                    /\ RLess(Zero, RelativeVelocity(cres.trace[k].bodies, c))
                    /\ HeadOn(BodiesAt(k), c) =>
                          Dot(VSub(cres.trace[k].bodies[c.a].v,
                                   cres.trace[k].bodies[c.b].v), c.n) =
                             RMul(R(-1, 2),
                                  Dot(VSub(BodiesAt(k)[c.a].v, BodiesAt(k)[c.b].v), c.n)))

C28_Witness ==
    /\ FindCalled
    /\ NoNullListed
    /\ cres.outcome = "returned"
    /\ cres.ncontacts = 1
    /\ Len(bodies) = 2
    /\ Consistent(cres.before, contacts[1])
    /\ ~HeadOn(cres.before, contacts[1])
    /\ cres.before[1].L # VZero
    /\ contacts[1].p = V(1, 1, 0)
    /\ contacts[1].n # V(-1, 0, 0)
    /\ Count(cres.trace, "collision") = 1
    /\ cres.passes = 2
    /\ bodies[1].omega # cres.before[1].omega
    /\ RLess(RelativeVelocity(cres.before, contacts[1]), Zero)
    /\ RLess(Zero, RelativeVelocity(bodies, contacts[1]))

-----------------------------------------------------------------------------
(* C29 as stated: FindAllCollisions(contacts, ncontacts) never accesses a  *)
(* contact at an index outside 0 .. contacts.size()-1 (here: a contact     *)
(* outside 1 .. Len(contacts)), for every value of ncontacts, those        *)
(* greater than contacts.size() and the negative ones included.            *)
C29_Original ==
    FindCalledAny =>
        \A k \in Events :
            cres.trace[k].ev \in {"colliding", "collision"} =>
                cres.trace[k].i \in 1 .. Len(contacts)

-----------------------------------------------------------------------------
(* C30: within one pass of FindAllCollisions the contacts are examined in  *)
(* increasing index order, and each is classified, and resolved, against   *)
(* the bodies as they are then: as the impulses of the contacts before it  *)
(* in the pass left them, not as they were when the pass began.            *)
C30_CurrentState ==
    (FindCalled /\ NoNullListed) =>
        \A k \in Events :
            /\ cres.trace[k].ev = "pass" =>
                  (k < Len(cres.trace) =>
                      /\ cres.trace[k + 1].ev = "colliding"
                      /\ cres.trace[k + 1].i = 1)
            /\ cres.trace[k].ev = "colliding" =>
                  /\ cres.trace[k].ret =
                        colliding(BodiesAt(k), contacts[cres.trace[k].i])
                  /\ (k > 1 /\ cres.trace[k - 1].ev # "pass") =>
                        cres.trace[k].i = cres.trace[k - 1].i + 1
            /\ cres.trace[k].ev = "collision" =>
                  cres.trace[k].bodies =
                     collision(BodiesAt(k), contacts[cres.trace[k].i], FindEpsilon)

C30_Witness ==
    /\ FindCalled
    /\ NoNullListed
    /\ cres.outcome = "returned"
    /\ cres.ncontacts = 2
    /\ ~colliding(cres.before, contacts[2])
    /\ Len(cres.trace) >= 8
    /\ cres.trace[2].ev = "colliding" /\ cres.trace[2].i = 1 /\ cres.trace[2].ret
    /\ cres.trace[3].ev = "collision"
    /\ cres.trace[5].ev = "colliding" /\ cres.trace[5].i = 2 /\ cres.trace[5].ret
    /\ cres.trace[6].ev = "collision"
    /\ cres.trace[8].ev = "pass"
    /\ cres.trace[6].bodies # collision(cres.before, contacts[2], FindEpsilon)

====
